---- MODULE Spec2Model ----
(***************************************************************************)
(* A model of libbsdiff's patch applier and generator.                     *)
(*                                                                         *)
(*   src/src/patch.rs               read_paired_bufs, read_size_from,      *)
(*                                  Patcher, apply  (compact format)       *)
(*   src/src/format/linear_diff.rs  Command, generate_full_patch,          *)
(*                                  apply_patch     (linear format)        *)
(*   src/examples/optimizer.rs      FileCache                              *)
(*                                                                         *)
(* The modules core, diff and index of the crate are not part of the       *)
(* sources at hand; what the model needs of them (Header, CommandReader,   *)
(* MatchIter, write_delta, the generate_*_patch functions) is modelled     *)
(* from the specification and marked so in each comment.                   *)
(*                                                                         *)
(* A u64 that has wrapped below zero is represented by the negative        *)
(* integer v - 2^64, so the arithmetic stays exact without 64-bit numbers. *)
(***************************************************************************)
EXTENDS Integers, Sequences, FiniteSets, TLC

\* ------------------------------------------------------------------ bounds

\* Longest old / new byte sequence drawn by Init.
MaxLen == 4

\* Capacity of the working buffers ([0u8; 1024] in the source), scaled down so
\* that runs longer than one buffer, and longer than two, are reached.
BufCap == 2

\* Largest number of bytes the model lets a run write to the output.  Only a
\* run whose remaining-size counter has wrapped ever gets there.
MaxOut == 8

\* Longest old / new of a run whose patch is cut short or damaged.
MaxCutLen == 2

\* ------------------------------------------------------- program constants

\* u8 arithmetic wraps modulo 256.
ByteMod == 256

\* Size of the compact header: patch.split_at(32).
HeaderLen == 32

\* Size of an encoded Command: [0u8; 8*3].
CmdLen == 24

\* Bytes of an encoded u64.
U64Len == 8

\* ----------------------------------------------------------------- helpers

Min(a, b) == IF a < b THEN a ELSE b

Max(a, b) == IF a < b THEN b ELSE a

\* The bytes the inputs are drawn from.
Alphabet == {1, 2}

SeqsUpTo(S, n) == UNION {[1..k -> S] : k \in 0..n}

Zeros(n) == [i \in 1..n |-> 0]

\* s[a+1 .. b] in Rust's notation s[a..b].
Slice(s, a, b) == SubSeq(s, a + 1, b)

\* A u64 is "greater than zero" also when it has wrapped (negative here).
U64Positive(v) == v # 0

\* U64MinCap without the min: the buffer's capacity whatever size is left.
U64CapOnly(cap, v) == cap

\* min(cap as u64, v) for a possibly wrapped u64 v.
U64MinCap(cap, v) == IF v < 0 THEN cap ELSE Min(cap, v)

\* ------------------------------------------------------------------ codecs

\* Decoded integers of 2^24 and above are all represented by 2^24: no stream
\* of the model is that long, so every such size or offset behaves alike.
Huge == ByteMod * ByteMod * ByteMod

\* LeBytes with the most significant byte first (BigEndian::write_u64).
RECURSIVE BeBytes(_, _)
BeBytes(v, n) ==
    IF n = 0 THEN <<>> ELSE BeBytes(v \div ByteMod, n - 1) \o <<v % ByteMod>>

\* LittleEndian::write_u64: the n low bytes of v, least significant first.
RECURSIVE LeBytes(_, _)
LeBytes(v, n) ==
    IF n = 0 THEN <<>> ELSE <<v % ByteMod>> \o LeBytes(v \div ByteMod, n - 1)

\* LittleEndian::read_u64.
RECURSIVE LeValue(_)
LeValue(b) ==
    IF b = <<>> THEN 0
    ELSE LET r == LeValue(Tail(b))
         IN  IF r >= Huge \div ByteMod THEN Huge ELSE b[1] + ByteMod * r

\* CommandBytes with the first and the last field in each other's place.
CommandBytesSwapped(c) ==
    LeBytes(c.extra_append_size, U64Len) \o LeBytes(c.bytewise_add_size, U64Len)
        \o LeBytes(c.old_offset, U64Len)

\* Command::write_to: old_offset, bytewise_add_size, extra_append_size as
\* little-endian u64, in that order.
CommandBytes(c) ==
    LeBytes(c.old_offset, U64Len) \o LeBytes(c.bytewise_add_size, U64Len)
        \o LeBytes(c.extra_append_size, U64Len)

\* The decoding at the end of Command::read_from, of a full 24-byte buffer.
CommandOfBytes(b) ==
    [old_offset |-> LeValue(Slice(b, 0, 8)),
     bytewise_add_size |-> LeValue(Slice(b, 8, 16)),
     extra_append_size |-> LeValue(Slice(b, 16, 24))]

\* core::Command of the compact format (from the specification): match
\* length, literal length and a signed relative seek, 8 bytes each, the seek
\* as magnitude plus a sign bit in the last byte.
OfftBytes(v) ==
    LET m == LeBytes(IF v < 0 THEN -v ELSE v, U64Len)
    IN  [m EXCEPT ![U64Len] = @ + (IF v < 0 THEN 128 ELSE 0)]

OfftValue(b) ==
    LET m == LeValue([b EXCEPT ![U64Len] = @ % 128])
    IN  IF b[U64Len] >= 128 THEN -m ELSE m

CompactCommandBytes(c) ==
    LeBytes(c.bytewise_add_size, U64Len) \o LeBytes(c.extra_append_size, U64Len)
        \o OfftBytes(c.oldfile_seek_offset)

CompactCommandOfBytes(b) ==
    [bytewise_add_size |-> LeValue(Slice(b, 0, 8)),
     extra_append_size |-> LeValue(Slice(b, 8, 16)),
     oldfile_seek_offset |-> OfftValue(Slice(b, 16, 24))]

\* core::Header (from the specification): a magic tag and three u64 fields.
Magic == <<66, 83, 68, 73, 70, 70, 52, 48>>

HeaderBytes(h) ==
    Magic \o LeBytes(h.compressed_commands_size, U64Len)
          \o LeBytes(h.compressed_delta_size, U64Len)
          \o LeBytes(h.new_file_size, U64Len)

\* Header::read of the 32 header bytes: an error on a wrong magic.
HeaderRead(b) ==
    [ok |-> Slice(b, 0, 8) = Magic,
     compressed_commands_size |-> LeValue(Slice(b, 8, 16)),
     compressed_delta_size |-> LeValue(Slice(b, 16, 24)),
     new_file_size |-> LeValue(Slice(b, 24, 32))]

\* The external block codec, at its interface: a compressed segment is a
\* framed copy of its data (one length byte, then the data).  Decoding gives
\* the data; a segment cut short gives the bytes it still holds and is marked
\* bad: the decoder fails, or reports the end, where the data stops.
Compress(d) == <<Len(d)>> \o d

Decompress(seg) ==
    IF seg = <<>> THEN [data |-> <<>>, bad |-> TRUE]
    ELSE [data |-> SubSeq(seg, 2, Min(Len(seg), seg[1] + 1)),
          bad |-> seg[1] > Len(seg) - 1]

\* ---------------------------------------------- matching (specification)

\* Matches shorter than this are not used (the scanner's threshold).
MinMatchLen == 2

CommonPrefixLen(a, b) ==
    LET n == Min(Len(a), Len(b))
    IN  CHOOSE k \in 0..n :
            /\ \A i \in 1..k : a[i] = b[i]
            /\ k = n \/ a[k + 1] # b[k + 1]

\* Index::best_match: the longest prefix of w found in od, lowest offset first.
BestMatch(od, w) ==
    LET len(o) == CommonPrefixLen(Slice(od, o, Len(od)), w)
        best == CHOOSE o \in 0..Len(od) :
                    \A q \in 0..Len(od) :
                        len(q) < len(o) \/ (len(q) = len(o) /\ o <= q)
    IN  [old_offset |-> best, len |-> len(best)]

\* Whether a usable match starts at position j of nw.
UsefulAt(od, nw, j) == BestMatch(od, Slice(nw, j, Len(nw))).len >= MinMatchLen

\* MatchIter::from(old, new): the pairs (matched, unmatched_suffix) from
\* position i of nw on, covering nw to its end.
RECURSIVE MatchIter(_, _, _)
MatchIter(od, nw, i) ==
    IF i >= Len(nw) THEN <<>>
    ELSE LET b == BestMatch(od, Slice(nw, i, Len(nw)))
             m == IF b.len >= MinMatchLen THEN b ELSE [old_offset |-> 0, len |-> 0]
             from == IF m.len = 0 THEN i + 1 ELSE i + m.len
             stop == CHOOSE j \in from..Len(nw) :
                         /\ j = Len(nw) \/ UsefulAt(od, nw, j)
                         /\ \A q \in from..(j - 1) : ~UsefulAt(od, nw, q)
         IN  <<[old_offset |-> m.old_offset, len |-> m.len,
                unmatched_suffix |-> stop - (i + m.len)]>>
                 \o MatchIter(od, nw, stop)

\* write_delta: new_byte - old_byte, wrapping, the inverse of the applier's sum.
DeltaBytes(o, n) == [i \in 1..Len(o) |-> (n[i] - o[i] + ByteMod) % ByteMod]

\* ------------------------------------- compact generators (specification)

\* The three segments and the header, put together as patch bytes.
CompactPatch(cmds, delta, extra, newSize) ==
    LET cseg == Compress(cmds)
        dseg == Compress(delta)
    IN  HeaderBytes([compressed_commands_size |-> Len(cseg),
                     compressed_delta_size |-> Len(dseg),
                     new_file_size |-> newSize])
            \o cseg \o dseg \o Compress(extra)

\* diff::generate_identity_patch(size): one command adding size zero bytes.
generate_identity_patch(n) ==
    CompactPatch(
        CompactCommandBytes([bytewise_add_size |-> n, extra_append_size |-> 0,
                             oldfile_seek_offset |-> 0]),
        Zeros(n), <<>>, n)

\* diff::generate_idempotent_patch(target): one command appending the target.
generate_idempotent_patch(t) ==
    CompactPatch(
        CompactCommandBytes([bytewise_add_size |-> 0, extra_append_size |-> Len(t),
                             oldfile_seek_offset |-> 0]),
        <<>>, t, Len(t))

\* The commands of a match sequence ms, the old cursor standing at cursor:
\* each command's seek leads from the end of its match to the next match.
RECURSIVE SimpleCommands(_, _)
SimpleCommands(ms, j) ==
    IF j > Len(ms) THEN <<>>
    ELSE LET m == ms[j]
             next == IF j < Len(ms) THEN ms[j + 1].old_offset
                     ELSE m.old_offset + m.len
         IN  CompactCommandBytes(
                 [bytewise_add_size |-> m.len,
                  extra_append_size |-> m.unmatched_suffix,
                  oldfile_seek_offset |-> next - (m.old_offset + m.len)])
               \o SimpleCommands(ms, j + 1)

\* The delta bytes and the literal bytes of ms, new being read from i on.
RECURSIVE SimpleDelta(_, _, _, _, _)
SimpleDelta(od, nw, ms, j, i) ==
    IF j > Len(ms) THEN <<>>
    ELSE LET m == ms[j]
         IN  DeltaBytes(Slice(od, m.old_offset, m.old_offset + m.len),
                        Slice(nw, i, i + m.len))
               \o SimpleDelta(od, nw, ms, j + 1, i + m.len + m.unmatched_suffix)

RECURSIVE SimpleExtra(_, _, _, _)
SimpleExtra(nw, ms, j, i) ==
    IF j > Len(ms) THEN <<>>
    ELSE LET m == ms[j]
         IN  Slice(nw, i + m.len, i + m.len + m.unmatched_suffix)
               \o SimpleExtra(nw, ms, j + 1, i + m.len + m.unmatched_suffix)

\* diff::generate_simple_patch(index, new): the scanner's pairs as commands,
\* led by a seek to the first match when it does not start at offset 0.
generate_simple_patch(od, nw) ==
    LET ms == MatchIter(od, nw, 0)
        lead == IF ms # <<>> /\ ms[1].old_offset # 0
                THEN CompactCommandBytes(
                         [bytewise_add_size |-> 0, extra_append_size |-> 0,
                          oldfile_seek_offset |-> ms[1].old_offset])
                ELSE <<>>
    IN  CompactPatch(lead \o SimpleCommands(ms, 1),
                     SimpleDelta(od, nw, ms, 1, 0),
                     SimpleExtra(nw, ms, 1, 0), Len(nw))

\* -------------------------------------------------------------------- state

VARIABLES
    variant,    \* "compact" (patch::apply), "linear" (apply_patch), "merge",
                \* "copy" (read_size_from alone), "cache"
    kind,       \* what made the patch: "simple", "identity", "idempotent", ...
    rk,         \* the readers: "full" (a Cursor) or "short" (any Read)
    faulty,     \* whether the readers, the seeker and the writers may fail
    old,        \* OldData
    new,        \* NewData, the generator's target
    patch,      \* the patch bytes
    rd,         \* the readers: stream name -> [data, pos, bad]
    pc,         \* where the running operation stands
    result,     \* "none" while it runs, then "Ok", "Err" or "Panic"
    header,     \* the Header read by patch::apply
    cmd,        \* the Command being applied
    out,        \* the bytes written to the output (new: NewW)
    size, p0, p1, buf0, buf1,   \* locals of read_paired_bufs
    p, buf,                     \* locals of read_size_from (size is shared)
    cbuf, cp,                   \* buf and p of Command::read_from
    op,         \* the operation running: "generate", "apply" or "merge"
    i, k, matches,              \* i, k and the iterator of generate_full_patch
    call,       \* ghost: the running read_* call: declared size, start positions
    seen0, seen1,   \* ghost: the slices handed to read_paired_bufs' callback
    seenE,      \* ghost: the slices handed to read_size_from's callback
    ioFailed,   \* ghost: an I/O call of the operation has returned an error
    files,      \* the cache directory: file name -> the file's bytes
    procs       \* the processes calling from_cache_or_compute on that directory

inputs == <<variant, kind, rk, faulty, old, new>>
paired == <<p0, p1, buf0, buf1>>
sized == <<p, buf>>
reading == <<cbuf, cp>>
generating == <<op, i, k, matches>>
ghosts == <<call, seen0, seen1, seenE>>
caching == <<files, procs>>
vars == <<inputs, patch, rd, pc, result, header, cmd, out, size, paired, sized,
          reading, generating, ghosts, ioFailed, caching>>

Streams == {"old", "commands", "delta", "extra", "patch"}

NoCommand == [old_offset |-> 0, bytewise_add_size |-> 0, extra_append_size |-> 0,
              oldfile_seek_offset |-> 0]

NoHeader == [ok |-> FALSE, compressed_commands_size |-> 0,
             compressed_delta_size |-> 0, new_file_size |-> 0]

NoCall == [decl |-> 0, start0 |-> 0, start1 |-> 0]

Reader(d, b) == [data |-> d, pos |-> 0, bad |-> b]

\* No cache directory and no process using one.
NoCache == files = <<>> /\ procs = <<>>

\* The state before any operation has run, the inputs left to the caller.
Blank ==
    /\ rd = [s \in Streams |-> Reader(<<>>, FALSE)]
    /\ result = "none"
    /\ header = NoHeader
    /\ cmd = NoCommand
    /\ out = <<>>
    /\ size = 0
    /\ p0 = 0 /\ p1 = 0 /\ buf0 = Zeros(BufCap) /\ buf1 = Zeros(BufCap)
    /\ p = 0 /\ buf = Zeros(BufCap)
    /\ cbuf = Zeros(CmdLen) /\ cp = 0
    /\ i = 0 /\ k = 0
    /\ call = NoCall
    /\ seen0 = <<>> /\ seen1 = <<>> /\ seenE = <<>>
    /\ ioFailed = FALSE
    /\ NoCache

\* ------------------------------------------------------------------ readers

\* What one read of at most want bytes (want > 0) from stream s can return:
\* a byte count, or -1 for an error.  At the end of the data a read returns 0;
\* a Cursor fills the buffer as far as its data goes, any other reader may
\* return fewer bytes, but at least one.
ReadOuts(s, want) ==
    LET rem == Max(0, Len(rd[s].data) - rd[s].pos)
    IN  (IF rem = 0 THEN (IF rd[s].bad THEN {0, -1} ELSE {0})
         ELSE IF rk = "full" THEN {Min(want, rem)}
         ELSE 1..Min(want, rem))
        \cup (IF faulty THEN {-1} ELSE {})

\* The n bytes a read of stream s delivers.
ReadBytes(s, n) == SubSeq(rd[s].data, rd[s].pos + 1, rd[s].pos + n)

\* buffer b after a read has put bytes at b[at..].
Fill(b, at, bytes) ==
    [j \in 1..Len(b) |->
        IF j > at /\ j <= at + Len(bytes) THEN bytes[j - at] ELSE b[j]]

\* Whether a write_all of bytes succeeds; writing nothing cannot fail.
WriteOuts(bytes) == IF faulty /\ bytes # <<>> THEN {TRUE, FALSE} ELSE {TRUE}

\* Whether a seek succeeds, position permitting.
SeekOuts == IF faulty THEN {TRUE, FALSE} ELSE {TRUE}

\* The operation returns r; failed says that an I/O call has just failed.
Return(r, failed) ==
    /\ pc' = "done"
    /\ result' = r
    /\ ioFailed' = (ioFailed \/ failed)
    /\ UNCHANGED <<caching, inputs, patch, rd, header, cmd, out, size, paired, sized,
                   reading, generating, ghosts>>

\* The stream read_paired_bufs combines with old, and the one read_size_from
\* copies: the delta and extra segments of a compact patch, the patch itself
\* in the linear format.
DeltaStream == IF variant = "compact" THEN "delta" ELSE "patch"

ExtraStream == IF variant = "compact" THEN "extra" ELSE "patch"

\* ------------------------------------------------------- read_paired_bufs

\* let mut base = 0; it is never set to anything else.
base == 0

\* AddBytes with the sum dropped: the delta bytes written as they are.
AddBytesDeltaOnly(o, d) == d

\* AddBytes with a saturating sum (saturating_add) in place of the wrapping one.
AddBytesSaturating(o, d) == [j \in 1..Len(o) |-> Min(o[j] + d[j], ByteMod - 1)]

\* The callback of append_delta and apply_patch: o[i] = o[i].wrapping_add(d[i]).
AddBytes(o, d) == [j \in 1..Len(o) |-> (o[j] + d[j]) % ByteMod]

\* ShiftDown with the loop left out: the unconsumed bytes stay where they are.
ShiftDownNot(b, pmin, pk) == b

\* for i in pmin..pk { b[i - pmin] = b[i] }
ShiftDown(b, pmin, pk) ==
    [j \in 1..Len(b) |-> IF j <= pk - pmin THEN b[j + pmin] ELSE b[j]]

\* Entering read_paired_bufs(n, old, delta stream, f).
EnterPaired(n) ==
    /\ pc' = "delta"
    /\ size' = n
    /\ p0' = 0 /\ p1' = 0 /\ buf0' = Zeros(BufCap) /\ buf1' = Zeros(BufCap)
    /\ call' = [decl |-> n, start0 |-> rd["old"].pos,
                start1 |-> rd[DeltaStream].pos]
    /\ seen0' = <<>> /\ seen1' = <<>>

\* Entering read_size_from(n, extra stream, f).
EnterSized(n) ==
    /\ pc' = "extra"
    /\ size' = n
    /\ p' = 0 /\ buf' = Zeros(BufCap)
    /\ call' = [decl |-> n, start0 |-> rd[ExtraStream].pos, start1 |-> 0]
    /\ seenE' = <<>>

\* One iteration of the loop of read_paired_bufs.
PairedIter ==
    /\ pc = "delta"
    /\ U64Positive(size)
    /\ LET avail == U64MinCap(BufCap, size)
       IN  \E o0 \in (IF p0 < avail THEN ReadOuts("old", avail - p0) ELSE {0}),
              o1 \in (IF p1 < avail THEN ReadOuts(DeltaStream, avail - p1) ELSE {0}) :
             IF o0 < 0 \/ o1 < 0 THEN Return("Err", TRUE)
             ELSE LET n0 == p0 + o0
                      n1 == p1 + o1
                      b0 == Fill(buf0, p0, ReadBytes("old", o0))
                      b1 == Fill(buf1, p1, ReadBytes(DeltaStream, o1))
                      pmin == Min(n0, n1)
                      o == Slice(b0, base, pmin)
                      d == Slice(b1, base, pmin)
                      sum == AddBytes(o, d)
                      c0 == Fill(b0, base, sum)
                      processed == pmin - base
                  IN  \E w \in WriteOuts(sum) :
                        IF ~w THEN Return("Err", TRUE)
                        ELSE /\ rd' = [rd EXCEPT !["old"].pos = @ + o0,
                                                 ![DeltaStream].pos = @ + o1]
                             /\ out' = out \o sum
                             /\ buf0' = IF n1 < n0 THEN ShiftDown(c0, pmin, n0) ELSE c0
                             /\ buf1' = IF n0 < n1 THEN ShiftDown(b1, pmin, n1) ELSE b1
                             /\ p0' = n0 - pmin
                             /\ p1' = n1 - pmin
                             /\ size' = size - processed
                             /\ seen0' = seen0 \o o
                             /\ seen1' = seen1 \o d
                             /\ UNCHANGED <<caching, inputs, patch, pc, result, header, cmd,
                                            sized, reading, generating, call, seenE,
                                            ioFailed>>

\* read_paired_bufs returns Ok(()): the caller goes on.
PairedReturn ==
    /\ pc = "delta"
    /\ size = 0
    /\ IF variant = "merge" THEN Return("Ok", FALSE)
       ELSE /\ EnterSized(cmd.extra_append_size)
            /\ UNCHANGED <<caching, inputs, patch, rd, result, header, cmd, out, paired,
                           reading, generating, seen0, seen1, ioFailed>>

\* --------------------------------------------------------- read_size_from

\* One iteration of the loop of read_size_from.  size -= p overflows when p is
\* larger than the size left: a debug build panics there, a release build wraps.
SizedIter ==
    /\ pc = "extra"
    /\ U64Positive(size)
    /\ LET avail == U64MinCap(BufCap, size)
       IN  \E o1 \in (IF p < avail THEN ReadOuts(ExtraStream, avail - p) ELSE {0}) :
             IF o1 < 0 THEN Return("Err", TRUE)
             ELSE LET n == p + o1
                      b == Fill(buf, p, ReadBytes(ExtraStream, o1))
                      e == Slice(b, base, n)
                  IN  /\ Len(out) + Len(e) <= MaxOut
                      /\ \E w \in WriteOuts(e), build \in {"debug", "release"} :
                           IF ~w THEN Return("Err", TRUE)
                           ELSE IF size > 0 /\ n > size /\ build = "debug"
                           THEN /\ pc' = "done"
                                /\ result' = "Panic"
                                /\ rd' = [rd EXCEPT ![ExtraStream].pos = @ + o1]
                                /\ out' = out \o e
                                /\ seenE' = seenE \o e
                                /\ UNCHANGED <<caching, inputs, patch, header, cmd, size,
                                               paired, sized, reading, generating,
                                               call, seen0, seen1, ioFailed>>
                           ELSE /\ rd' = [rd EXCEPT ![ExtraStream].pos = @ + o1]
                                /\ out' = out \o e
                                /\ buf' = b
                                /\ p' = n
                                /\ size' = size - n
                                /\ seenE' = seenE \o e
                                /\ UNCHANGED <<caching, inputs, patch, pc, result, header, cmd,
                                               paired, reading, generating, call,
                                               seen0, seen1, ioFailed>>

\* read_size_from returns Ok(()): patch::apply goes on to seek_old, apply_patch
\* to the next command.
SizedReturn ==
    /\ pc = "extra"
    /\ size = 0
    /\ IF variant = "copy" THEN Return("Ok", FALSE)
       ELSE /\ pc' = IF variant = "compact" THEN "seek" ELSE "read_cmd"
            /\ cp' = 0
            /\ cbuf' = Zeros(CmdLen)
            /\ UNCHANGED <<caching, inputs, patch, rd, result, header, cmd, out, size,
                           paired, sized, generating, ghosts, ioFailed>>

\* ------------------------------------------------------------ patch::apply

\* Patcher::check_written_size: "TODO: return an error if we haven't written
\* the expected size to the output"; it returns Ok(()) whatever was written.
check_written_size(written, expected) == "Ok"

\* apply, up to its loop: split_at panics when the patch is shorter than the
\* place asked for; Header::read fails on a wrong magic.
ApplyStart ==
    /\ pc = "start"
    /\ variant = "compact"
    /\ IF Len(patch) < HeaderLen THEN Return("Panic", FALSE)
       ELSE LET h == HeaderRead(Slice(patch, 0, HeaderLen))
                body == Slice(patch, HeaderLen, Len(patch))
                ccs == h.compressed_commands_size
                cds == h.compressed_delta_size
            IN  IF ~h.ok THEN Return("Err", FALSE)
                ELSE IF ccs > Len(body) \/ cds > Len(body) - ccs
                THEN Return("Panic", FALSE)
                ELSE LET c == Decompress(Slice(body, 0, ccs))
                         d == Decompress(Slice(body, ccs, ccs + cds))
                         e == Decompress(Slice(body, ccs + cds, Len(body)))
                     IN  /\ header' = h
                         /\ rd' = [rd EXCEPT !["commands"] = Reader(c.data, c.bad),
                                             !["delta"] = Reader(d.data, d.bad),
                                             !["extra"] = Reader(e.data, e.bad),
                                             !["old"] = Reader(old, FALSE)]
                         /\ pc' = "next_cmd"
                         /\ UNCHANGED <<caching, inputs, patch, result, cmd, out, size, paired,
                                        sized, reading, generating, ghosts, ioFailed>>

\* for cmd in commands: CommandReader (from the specification) gives the next
\* command, the end of the stream at a command boundary, or an error when the
\* stream stops inside a command.  At the end apply checks the written size.
NextCmd ==
    /\ pc = "next_cmd"
    /\ LET r == rd["commands"]
           rem == Len(r.data) - r.pos
       IN  IF rem = 0
           THEN \E o \in (IF r.bad THEN {0, -1} ELSE {0}) :
                    IF o < 0 THEN Return("Err", TRUE)
                    ELSE Return(check_written_size(Len(out), header.new_file_size),
                                FALSE)
           ELSE IF rem < CmdLen THEN Return("Err", FALSE)
           ELSE /\ cmd' = CompactCommandOfBytes(ReadBytes("commands", CmdLen))
                             @@ [old_offset |-> 0]
                /\ rd' = [rd EXCEPT !["commands"].pos = @ + CmdLen]
                /\ EnterPaired(cmd'.bytewise_add_size)
                /\ UNCHANGED <<caching, inputs, patch, result, header, out, sized, reading,
                               generating, seenE, ioFailed>>

\* SeekOld taking the command's offset from the start of old (SeekFrom::Start)
\* instead of from the cursor.
SeekOldFromStart ==
    /\ pc = "seek"
    /\ \E ok \in SeekOuts :
         LET to == cmd.oldfile_seek_offset
         IN  IF ~ok \/ to < 0 THEN Return("Err", TRUE)
             ELSE /\ rd' = [rd EXCEPT !["old"].pos = to]
                  /\ pc' = "next_cmd"
                  /\ UNCHANGED <<caching, inputs, patch, result, header, cmd, out, size,
                                 paired, sized, reading, generating, ghosts,
                                 ioFailed>>

\* Patcher::seek_old: old.seek(SeekFrom::Current(size)); a Cursor refuses a
\* position below zero.
SeekOld ==
    /\ pc = "seek"
    /\ \E ok \in SeekOuts :
         LET to == rd["old"].pos + cmd.oldfile_seek_offset
         IN  IF ~ok \/ to < 0 THEN Return("Err", TRUE)
             ELSE /\ rd' = [rd EXCEPT !["old"].pos = to]
                  /\ pc' = "next_cmd"
                  /\ UNCHANGED <<caching, inputs, patch, result, header, cmd, out, size,
                                 paired, sized, reading, generating, ghosts,
                                 ioFailed>>

\* ------------------------------------------------- compact specifications

Inputs == SeqsUpTo(Alphabet, MaxLen)

\* Ways a patch reaches apply damaged: cut short, or with a header field that
\* does not fit its body.
Tampers == {"cut0", "cutHeader", "cutBody", "cutTail", "commandsOver",
            "deltaOver", "commandsUnder", "sizeOver", "sizeUnder"}

Tamper(pt, t) ==
    LET h == HeaderRead(Slice(pt, 0, HeaderLen))
        body == Slice(pt, HeaderLen, Len(pt))
        with(f) == HeaderBytes(f) \o body
    IN  CASE t = "cut0" -> <<>>
          [] t = "cutHeader" -> Slice(pt, 0, HeaderLen - 1)
          [] t = "cutBody" -> Slice(pt, 0, HeaderLen)
          [] t = "cutTail" -> Slice(pt, 0, Len(pt) - 1)
          [] t = "commandsOver" ->
                with([h EXCEPT !.compressed_commands_size = Len(body) + 1])
          [] t = "deltaOver" ->
                with([h EXCEPT !.compressed_delta_size =
                                   Len(body) - h.compressed_commands_size + 1])
          [] t = "commandsUnder" ->
                with([h EXCEPT !.compressed_commands_size = @ - 1])
          [] t = "sizeOver" -> with([h EXCEPT !.new_file_size = @ + 1])
          [] t = "sizeUnder" -> with([h EXCEPT !.new_file_size = Max(0, @ - 1)])

\* A call of patch::apply(patch, Cursor::new(old), out) about to start, the
\* patch made by one of the compact generators, or a damaged patch.
InitCompact ==
    /\ variant = "compact"
    /\ rk \in {"full", "short"}
    /\ faulty = FALSE
    /\ old \in Inputs
    /\ new \in Inputs
    /\ kind \in {"simple", "identity", "idempotent", "tampered"}
    /\ kind = "identity" => new = old
    /\ kind = "tampered" => (Len(old) <= MaxCutLen /\ Len(new) <= MaxCutLen)
    /\ \E t \in (IF kind = "tampered" THEN Tampers ELSE {"none"}) :
         patch = CASE kind = "simple" -> generate_simple_patch(old, new)
                   [] kind = "identity" -> generate_identity_patch(Len(old))
                   [] kind = "idempotent" -> generate_idempotent_patch(new)
                   [] kind = "tampered" ->
                        Tamper(generate_simple_patch(old, new), t)
    /\ pc = "start"
    /\ op = "apply"
    /\ matches = <<>>
    /\ Blank

NextCompact ==
    \/ ApplyStart
    \/ NextCmd
    \/ PairedIter
    \/ PairedReturn
    \/ SizedIter
    \/ SizedReturn
    \/ SeekOld

SpecCompact == InitCompact /\ [][NextCompact]_vars

\* ------------------------------------------------- read_paired_bufs alone

\* The bytes the two streams of the merger are drawn from: their sums wrap.
MergeBytes == {1, 255}

\* A call read_paired_bufs(size, r0, r1, f) about to enter its loop, f the
\* callback of append_delta.  The readers hold any bytes, also fewer than size.
InitMerge ==
    /\ variant = "merge"
    /\ kind = "merge"
    /\ rk \in {"full", "short"}
    /\ faulty = FALSE
    /\ old \in SeqsUpTo(MergeBytes, MaxLen)
    /\ new = <<>>
    /\ patch \in SeqsUpTo(MergeBytes, MaxLen)
    /\ rd = [s \in Streams |->
                IF s = "old" THEN Reader(old, FALSE)
                ELSE IF s = "patch" THEN Reader(patch, FALSE)
                ELSE Reader(<<>>, FALSE)]
    /\ pc = "delta"
    /\ op = "merge"
    /\ size \in 0..MaxLen
    /\ call = [decl |-> size, start0 |-> 0, start1 |-> 0]
    /\ result = "none"
    /\ header = NoHeader
    /\ cmd = NoCommand
    /\ out = <<>>
    /\ p0 = 0 /\ p1 = 0 /\ buf0 = Zeros(BufCap) /\ buf1 = Zeros(BufCap)
    /\ p = 0 /\ buf = Zeros(BufCap)
    /\ cbuf = Zeros(CmdLen) /\ cp = 0
    /\ i = 0 /\ k = 0 /\ matches = <<>>
    /\ seen0 = <<>> /\ seen1 = <<>> /\ seenE = <<>>
    /\ ioFailed = FALSE
    /\ NoCache

NextMerge ==
    \/ PairedIter
    \/ PairedReturn

SpecMerge == InitMerge /\ [][NextMerge]_vars

\* ------------------------------------------------- append_delta, all bytes

\* a, b, a, b, ... : n bytes.
Alternate(a, b, n) == [j \in 1..n |-> IF j % 2 = 1 THEN a ELSE b]

\* A call append_delta(size) for a match one byte longer than the buffer, the
\* old cursor standing at position 1: the old bytes of the match are a, b,
\* a, ..., the new bytes b, a, b, ..., for every pair of bytes a and b, and
\* the delta stream holds the generator's differences (write_delta).
InitArith ==
    /\ variant = "merge"
    /\ kind = "arith"
    /\ rk \in {"full", "short"}
    /\ faulty = FALSE
    /\ \E a, b \in 0..(ByteMod - 1) :
         /\ old = <<0>> \o Alternate(a, b, BufCap + 1)
         /\ new = Alternate(b, a, BufCap + 1)
    /\ patch = DeltaBytes(Slice(old, 1, Len(old)), new)
    /\ rd = [s \in Streams |->
                IF s = "old" THEN [data |-> old, pos |-> 1, bad |-> FALSE]
                ELSE IF s = "patch" THEN Reader(patch, FALSE)
                ELSE Reader(<<>>, FALSE)]
    /\ pc = "delta"
    /\ op = "merge"
    /\ size = BufCap + 1
    /\ call = [decl |-> size, start0 |-> 1, start1 |-> 0]
    /\ result = "none"
    /\ header = NoHeader
    /\ cmd = NoCommand
    /\ out = <<>>
    /\ p0 = 0 /\ p1 = 0 /\ buf0 = Zeros(BufCap) /\ buf1 = Zeros(BufCap)
    /\ p = 0 /\ buf = Zeros(BufCap)
    /\ cbuf = Zeros(CmdLen) /\ cp = 0
    /\ i = 0 /\ k = 0 /\ matches = <<>>
    /\ seen0 = <<>> /\ seen1 = <<>> /\ seenE = <<>>
    /\ ioFailed = FALSE
    /\ NoCache

SpecArith == InitArith /\ [][NextMerge]_vars

\* --------------------------------------------------- read_size_from alone

\* A call read_size_from(size, r, f) about to enter its loop, f the callback
\* of append_extra.  The reader holds any bytes, also fewer or more than size.
InitCopy ==
    /\ variant = "copy"
    /\ kind = "copy"
    /\ rk \in {"full", "short"}
    /\ faulty = FALSE
    /\ old = <<>>
    /\ new = <<>>
    /\ patch \in Inputs
    /\ pc = "extra"
    /\ op = "copy"
    /\ matches = <<>>
    /\ \E n \in 0..MaxLen :
         /\ size = n
         /\ call = [decl |-> n, start0 |-> 0, start1 |-> 0]
    /\ rd = [s \in Streams |->
                IF s = "patch" THEN Reader(patch, FALSE) ELSE Reader(<<>>, FALSE)]
    /\ result = "none"
    /\ header = NoHeader
    /\ cmd = NoCommand
    /\ out = <<>>
    /\ p0 = 0 /\ p1 = 0 /\ buf0 = Zeros(BufCap) /\ buf1 = Zeros(BufCap)
    /\ p = 0 /\ buf = Zeros(BufCap)
    /\ cbuf = Zeros(CmdLen) /\ cp = 0
    /\ i = 0 /\ k = 0
    /\ seen0 = <<>> /\ seen1 = <<>> /\ seenE = <<>>
    /\ ioFailed = FALSE
    /\ NoCache

NextCopy ==
    \/ SizedIter
    \/ SizedReturn

SpecCopy == InitCopy /\ [][NextCopy]_vars

\* ---------------------------------------------------- generate_full_patch

\* ProgressPanics with the progress line dividing by the length of old.
ProgressPanicsOld(kk, nw) == kk % 1024 = 0 /\ Len(old) = 0

\* What the progress line of generate_full_patch computes every 1024th
\* command: i * 100 / new.len(), a division by zero when new is empty.
ProgressPanics(kk, nw) == kk % 1024 = 0 /\ Len(nw) = 0

\* One turn of the loop of generate_full_patch: the command, the delta bytes
\* and the literal bytes of one pair of the scanner are written to the patch.
\* The results of cmd.write_to and write_delta are propagated with `?`; the
\* result of the write_all of the literal bytes is dropped.
GenIter ==
    /\ pc = "generate"
    /\ matches # <<>>
    /\ LET m == Head(matches)
           c == [old_offset |-> m.old_offset, bytewise_add_size |-> m.len,
                 extra_append_size |-> m.unmatched_suffix]
           dl == DeltaBytes(Slice(old, m.old_offset, m.old_offset + m.len),
                            Slice(new, i, i + m.len))
           extra_begin == i + m.len
           extra_end == extra_begin + m.unmatched_suffix
           lit == Slice(new, extra_begin, extra_end)
       IN  IF ProgressPanics(k, new) THEN Return("Panic", FALSE)
           ELSE \E wc \in WriteOuts(CommandBytes(c)), wd \in WriteOuts(dl),
                   wl \in WriteOuts(lit) :
                  IF ~wc \/ ~wd THEN Return("Err", TRUE)
                  ELSE /\ patch' = patch \o CommandBytes(c) \o dl
                                       \o (IF wl THEN lit ELSE <<>>)
                       /\ ioFailed' = (ioFailed \/ ~wl)
                       /\ i' = extra_end
                       /\ k' = k + 1
                       /\ matches' = Tail(matches)
                       /\ UNCHANGED <<caching, inputs, rd, pc, result, header, cmd, out, size,
                                      paired, sized, reading, op, ghosts>>

\* The iterator is exhausted: generate_full_patch returns Ok(()).
GenReturn ==
    /\ pc = "generate"
    /\ matches = <<>>
    /\ pc' = "generated"
    /\ result' = "Ok"
    /\ UNCHANGED <<caching, inputs, patch, rd, header, cmd, out, size, paired, sized,
                   reading, generating, ghosts, ioFailed>>

\* ------------------------------------------------------------- apply_patch

\* apply_patch(Cursor::new(patch), Cursor::new(old), out) is called on the
\* generated patch; a patch of kind "cut" arrives with its end missing.
ApplyPatchStart ==
    /\ pc = "generated"
    /\ \E n \in (IF kind = "cut" THEN 0..(Len(patch) - 1) ELSE {Len(patch)}) :
         rd' = [rd EXCEPT !["patch"] = Reader(Slice(patch, 0, n), FALSE),
                          !["old"] = Reader(old, FALSE)]
    /\ pc' = "read_cmd"
    /\ op' = "apply"
    /\ result' = "none"
    /\ ioFailed' = FALSE
    /\ cp' = 0
    /\ cbuf' = Zeros(CmdLen)
    /\ UNCHANGED <<caching, inputs, patch, header, cmd, out, size, paired, sized, i, k,
                   matches, ghosts>>

\* One read of the loop of Command::read_from: a read of 0 bytes makes it
\* return Ok(None), however many bytes of the command it holds already, and
\* apply_patch then returns Ok(()).
ReadCmdStep ==
    /\ pc = "read_cmd"
    /\ cp < CmdLen
    /\ \E o1 \in ReadOuts("patch", CmdLen - cp) :
         IF o1 < 0 THEN Return("Err", TRUE)
         ELSE IF o1 = 0 THEN Return("Ok", FALSE)
         ELSE /\ cbuf' = Fill(cbuf, cp, ReadBytes("patch", o1))
              /\ cp' = cp + o1
              /\ rd' = [rd EXCEPT !["patch"].pos = @ + o1]
              /\ UNCHANGED <<caching, inputs, patch, pc, result, header, cmd, out, size, paired,
                             sized, generating, ghosts, ioFailed>>

\* The buffer is full: read_from returns the command, apply_patch seeks old to
\* its old_offset (SeekFrom::Start) and enters read_paired_bufs.
SeekStart ==
    /\ pc = "read_cmd"
    /\ cp = CmdLen
    /\ \E ok \in SeekOuts :
         IF ~ok THEN Return("Err", TRUE)
         ELSE /\ cmd' = CommandOfBytes(cbuf) @@ [oldfile_seek_offset |-> 0]
              /\ rd' = [rd EXCEPT !["old"].pos = cmd'.old_offset]
              /\ pc' = "delta"
              /\ size' = cmd'.bytewise_add_size
              /\ p0' = 0 /\ p1' = 0
              /\ buf0' = Zeros(BufCap) /\ buf1' = Zeros(BufCap)
              /\ call' = [decl |-> cmd'.bytewise_add_size,
                          start0 |-> cmd'.old_offset, start1 |-> rd["patch"].pos]
              /\ seen0' = <<>> /\ seen1' = <<>>
              /\ UNCHANGED <<caching, inputs, patch, result, header, out, sized, reading,
                             generating, seenE, ioFailed>>

\* ------------------------------------------------- the linear Command codec

\* The field values commands are drawn from: zero, and values whose encoding
\* takes one, two and three bytes.
FieldValues == {0, 1, ByteMod - 1, ByteMod, ByteMod * ByteMod - 1,
                ByteMod * ByteMod, Huge - 1}

\* cmd.write_to(&mut patch), the command built from the pair m as in
\* generate_full_patch; other bytes may follow the command in the stream.
WriteTo ==
    /\ pc = "write_cmd"
    /\ LET m == Head(matches)
           c == [old_offset |-> m.old_offset, bytewise_add_size |-> m.len,
                 extra_append_size |-> m.unmatched_suffix]
       IN  /\ patch' = patch \o CommandBytes(c)
           /\ \E follow \in {<<>>, <<7>>} :
                rd' = [rd EXCEPT !["patch"] = Reader(patch' \o follow, FALSE)]
    /\ pc' = "read_cmd"
    /\ cp' = 0
    /\ cbuf' = Zeros(CmdLen)
    /\ UNCHANGED <<caching, inputs, result, header, cmd, out, size, paired, sized,
                   generating, ghosts, ioFailed>>

\* The buffer of Command::read_from is full: it returns Ok(Some(Command)),
\* the three fields decoded from the buffer.
ReadFromReturn ==
    /\ pc = "read_cmd"
    /\ cp = CmdLen
    /\ cmd' = CommandOfBytes(cbuf) @@ [oldfile_seek_offset |-> 0]
    /\ pc' = "done"
    /\ result' = "Some"
    /\ UNCHANGED <<caching, inputs, patch, rd, header, out, size, paired, sized,
                   reading, generating, ghosts, ioFailed>>

\* A Command about to be written by write_to and read back by read_from.
InitCodec ==
    /\ variant = "codec"
    /\ kind = "codec"
    /\ rk \in {"full", "short"}
    /\ faulty = FALSE
    /\ old = <<>> /\ new = <<>> /\ patch = <<>>
    /\ pc = "write_cmd"
    /\ op = "codec"
    /\ \E x, y, z \in FieldValues :
         matches = <<[old_offset |-> x, len |-> y, unmatched_suffix |-> z]>>
    /\ Blank

NextCodec ==
    \/ WriteTo
    \/ ReadCmdStep
    \/ ReadFromReturn

SpecCodec == InitCodec /\ [][NextCodec]_vars

\* ---------------------------------------------------- linear specification

\* generate_full_patch(&Index::compute(old), new, &mut patch) about to enter
\* its loop; apply_patch follows on what it wrote.
InitLinear ==
    /\ variant = "linear"
    /\ kind \in {"full", "cut"}
    /\ rk \in {"full", "short"}
    /\ faulty \in BOOLEAN
    /\ old \in Inputs
    /\ new \in Inputs
    /\ kind = "cut" => (Len(old) <= MaxCutLen /\ Len(new) <= MaxCutLen /\ ~faulty)
    /\ faulty => rk = "full"
    /\ patch = <<>>
    /\ pc = "generate"
    /\ op = "generate"
    /\ matches = MatchIter(old, new, 0)
    /\ Blank

NextLinear ==
    \/ GenIter
    \/ GenReturn
    \/ ApplyPatchStart
    \/ ReadCmdStep
    \/ SeekStart
    \/ PairedIter
    \/ PairedReturn
    \/ SizedIter
    \/ SizedReturn

SpecLinear == InitLinear /\ [][NextLinear]_vars

\* ------------------------------------------------------- both appliers

\* A run of either applier: patch::apply on a compact patch, or
\* generate_full_patch and apply_patch on a linear one.
InitApply == InitCompact \/ InitLinear

NextApply ==
    \/ ApplyStart
    \/ NextCmd
    \/ SeekOld
    \/ GenIter
    \/ GenReturn
    \/ ApplyPatchStart
    \/ ReadCmdStep
    \/ SeekStart
    \/ PairedIter
    \/ PairedReturn
    \/ SizedIter
    \/ SizedReturn

SpecApply == InitApply /\ [][NextApply]_vars

\* -------------------------------------------------------------- FileCache

\* Longest old data of a cached index.
MaxCacheLen == 2

\* The old data the processes index.
CacheInputs == SeqsUpTo(Alphabet, MaxCacheLen)

\* The processes sharing the cache directory.
Procs == {1, 2}

HexDigits == <<"0", "1", "2", "3", "4", "5", "6", "7", "8", "9", "a", "b", "c",
               "d", "e", "f">>

\* impl Display for Hex: write!(f, "{:02x}", byte) for each byte.
RECURSIVE Hex(_)
Hex(bytes) ==
    IF bytes = <<>> THEN <<>>
    ELSE <<HexDigits[(bytes[1] \div 16) + 1], HexDigits[(bytes[1] % 16) + 1]>>
             \o Hex(Tail(bytes))

\* The digest of old data, at its interface: a fixed-length fingerprint that no
\* two old data of the model share (here the length, the data, zero padding).
Digest(a) == <<Len(a)>> \o a \o Zeros(MaxCacheLen - Len(a))

\* self.path.join(format!("{}", Hex(digest))): the entry's file in the directory.
FileName(digest) == Hex(digest)

FileNames == {FileName(Digest(a)) : a \in CacheInputs}

NoFile == [exists |-> FALSE, bytes |-> <<>>]

\* CacheGet never finding the entry's file.
CacheGetNotFound(name) == "None"

\* FileCache::get: File::open of the entry's file; NotFound is Ok(None).
CacheGet(name) == IF files[name].exists THEN "Some" ELSE "None"

\* FileCache::get_writer: File::create of the entry's file, which creates it
\* empty, or empties it when it exists.
CacheCreate(name) == [files EXCEPT ![name] = [exists |-> TRUE, bytes |-> <<>>]]

\* A write of one byte b at offset at of a file; bytes skipped read as zero.
WriteAt(bytes, at, b) ==
    [j \in 1..Max(Len(bytes), at + 1) |->
        IF j = at + 1 THEN b ELSE IF j <= Len(bytes) THEN bytes[j] ELSE 0]

\* a < b in the order of the suffix array: bytewise, a proper prefix first.
LexLess(a, b) ==
    LET n == CommonPrefixLen(a, b)
    IN  IF n = Len(a) THEN n < Len(b)
        ELSE n < Len(b) /\ a[n + 1] < b[n + 1]

\* The suffix array of a (from the specification): the offsets 0..len-1 in
\* the order of the suffixes they start.
SuffixArray(a) ==
    LET n == Len(a)
    IN  CHOOSE sa \in [1..n -> 0..(n - 1)] :
            \A x, y \in 1..n :
                x < y => LexLess(Slice(a, sa[x], n), Slice(a, sa[y], n))

\* StoredSuffixArray, built and as its cache entry (from the specification):
\* the length, the data, the suffix array.
BuildIndex(a) == [data |-> a, sa |-> SuffixArray(a)]

Serialize(idx) == <<Len(idx.data)>> \o idx.data \o idx.sa

Deserialize(bytes) ==
    IF bytes # <<>> /\ Len(bytes) = 1 + 2 * bytes[1]
    THEN [ok |-> TRUE,
          index |-> [data |-> Slice(bytes, 1, 1 + bytes[1]),
                     sa |-> Slice(bytes, 1 + bytes[1], Len(bytes))]]
    ELSE [ok |-> FALSE, index |-> [data |-> <<>>, sa |-> <<>>]]

NoIndex == [data |-> <<>>, sa |-> <<>>]

\* A process about to call from_cache_or_compute(FileCache, a).  The field
\* after is a ghost: the processes whose call had returned when this one's
\* call looked the entry up.
NewProc(a) ==
    [pc |-> "get", a |-> a, hit |-> FALSE, atGet |-> <<>>, got |-> <<>>,
     built |-> FALSE, written |-> 0, index |-> NoIndex, result |-> "none",
     after |-> {}]

\* from_cache_or_compute (from the specification) calls cache.get(digest):
\* FileCache::get opens the entry's file when the directory holds it.
Lookup(q) ==
    /\ procs[q].pc = "get"
    /\ LET name == FileName(Digest(procs[q].a))
           returned == {r \in Procs : procs[r].pc = "done"}
       IN  procs' = [procs EXCEPT
                ![q] = IF CacheGet(name) = "Some"
                       THEN [@ EXCEPT !.pc = "load", !.hit = TRUE,
                                      !.atGet = files[name].bytes,
                                      !.after = returned]
                       ELSE [@ EXCEPT !.pc = "build", !.after = returned]]
    /\ UNCHANGED <<files, inputs, patch, rd, pc, result, header, cmd, out, size,
                   paired, sized, reading, generating, ghosts, ioFailed>>

\* One read of the opened file: the next byte, or at its present end the
\* entry is deserialized.
LoadStep(q) ==
    /\ procs[q].pc = "load"
    /\ LET f == files[FileName(Digest(procs[q].a))].bytes
           n == Len(procs[q].got)
       IN  procs' = [procs EXCEPT
                ![q] = IF n < Len(f) THEN [@ EXCEPT !.got = @ \o <<f[n + 1]>>]
                       ELSE LET d == Deserialize(procs[q].got)
                            IN  [@ EXCEPT !.pc = "done", !.index = d.index,
                                          !.result = IF d.ok THEN "Ok" ELSE "Err"]]
    /\ UNCHANGED <<files, inputs, patch, rd, pc, result, header, cmd, out, size,
                   paired, sized, reading, generating, ghosts, ioFailed>>

\* The miss path: the index is built.
BuildStep(q) ==
    /\ procs[q].pc = "build"
    /\ procs' = [procs EXCEPT ![q] = [@ EXCEPT !.pc = "create", !.built = TRUE,
                                               !.index = BuildIndex(procs[q].a)]]
    /\ UNCHANGED <<files, inputs, patch, rd, pc, result, header, cmd, out, size,
                   paired, sized, reading, generating, ghosts, ioFailed>>

\* cache.get_writer(digest): FileCache::get_writer creates the entry's file.
CreateStep(q) ==
    /\ procs[q].pc = "create"
    /\ files' = CacheCreate(FileName(Digest(procs[q].a)))
    /\ procs' = [procs EXCEPT ![q] = [@ EXCEPT !.pc = "write"]]
    /\ UNCHANGED <<inputs, patch, rd, pc, result, header, cmd, out, size,
                   paired, sized, reading, generating, ghosts, ioFailed>>

\* One write of the serialized index through the writer, at the writer's
\* offset; after the last one from_cache_or_compute returns the index.
WriteStep(q) ==
    /\ procs[q].pc = "write"
    /\ LET name == FileName(Digest(procs[q].a))
           entry == Serialize(procs[q].index)
           w == procs[q].written
       IN  IF w < Len(entry)
           THEN /\ files' = [files EXCEPT ![name].bytes = WriteAt(@, w, entry[w + 1])]
                /\ procs' = [procs EXCEPT ![q].written = w + 1]
           ELSE /\ files' = files
                /\ procs' = [procs EXCEPT ![q] = [@ EXCEPT !.pc = "done",
                                                          !.result = "Ok"]]
    /\ UNCHANGED <<inputs, patch, rd, pc, result, header, cmd, out, size,
                   paired, sized, reading, generating, ghosts, ioFailed>>

\* Two processes, each about to call from_cache_or_compute on a directory
\* that FileCache::new has just created.
InitCache ==
    /\ variant = "cache"
    /\ kind = "cache"
    /\ rk = "full"
    /\ faulty = FALSE
    /\ old = <<>> /\ new = <<>> /\ patch = <<>>
    /\ pc = "idle"
    /\ op = "cache"
    /\ matches = <<>>
    /\ rd = [s \in Streams |-> Reader(<<>>, FALSE)]
    /\ result = "none"
    /\ header = NoHeader
    /\ cmd = NoCommand
    /\ out = <<>>
    /\ size = 0
    /\ p0 = 0 /\ p1 = 0 /\ buf0 = Zeros(BufCap) /\ buf1 = Zeros(BufCap)
    /\ p = 0 /\ buf = Zeros(BufCap)
    /\ cbuf = Zeros(CmdLen) /\ cp = 0
    /\ i = 0 /\ k = 0
    /\ call = NoCall
    /\ seen0 = <<>> /\ seen1 = <<>> /\ seenE = <<>>
    /\ ioFailed = FALSE
    /\ files = [n \in FileNames |-> NoFile]
    /\ procs \in [Procs -> {NewProc(a) : a \in CacheInputs}]

NextCache ==
    \E q \in Procs :
        \/ Lookup(q)
        \/ LoadStep(q)
        \/ BuildStep(q)
        \/ CreateStep(q)
        \/ WriteStep(q)

SpecCache == InitCache /\ [][NextCache]_vars

\* ------------------------------------------------------------------ claims

\* C1: a patch made by generate_simple_patch(Index::compute(old), new), applied
\* to old by patch::apply, returns Ok and has written exactly new.
C1_CompactRoundTrip ==
    (kind = "simple" /\ pc = "done") => (result = "Ok" /\ out = new)

\* C3: the slices read_paired_bufs has handed to its callback are, joined, the
\* bytes of each stream from where the call started, in order, as many of one
\* stream as of the other and as many as the declared size has gone down by;
\* when the call returns they are the first `size` bytes of each stream.
C3_MergerExactlyOnce ==
    variant = "merge" =>
        /\ Len(seen0) = Len(seen1)
        /\ Len(seen0) = call.decl - size
        /\ seen0 = Slice(rd["old"].data, call.start0, call.start0 + Len(seen0))
        /\ seen1 = Slice(rd["patch"].data, call.start1, call.start1 + Len(seen1))
        /\ pc = "done" => (result = "Ok" /\ Len(seen0) = call.decl)

\* C3's case: the two readers have split their bytes into short reads of
\* different pace, slices have gone to the callback, and bytes one stream is
\* ahead by wait at the start of its buffer, the call still having bytes to go.
C3_Witness ==
    /\ variant = "merge"
    /\ rk = "short"
    /\ pc = "delta"
    /\ call.decl > BufCap
    /\ size > 0
    /\ Len(seen0) > 0
    /\ p0 # p1

\* C4: a run of patch::apply that returns Ok has written exactly
\* header.new_file_size bytes.
C4_NoPartialSuccess ==
    (variant = "compact" /\ result = "Ok") => Len(out) = header.new_file_size

\* The patches C6 is about: shorter than the header, or with segment sizes
\* in the header that exceed the body.
ShortOrOversized ==
    \/ Len(patch) < HeaderLen
    \/ LET h == HeaderRead(Slice(patch, 0, HeaderLen))
           bodyLen == Len(patch) - HeaderLen
       IN  \/ h.compressed_commands_size > bodyLen
           \/ h.compressed_delta_size > bodyLen
           \/ h.compressed_commands_size + h.compressed_delta_size > bodyLen

\* C6: patch::apply of a patch shorter than its header, or whose header sizes
\* exceed the body, ends with an error value (it does not panic).
C6_MalformedIsError ==
    (variant = "compact" /\ pc = "done" /\ ShortOrOversized) => result = "Err"

\* C8: the patch of generate_idempotent_patch(T) applied to any old returns Ok
\* and has written exactly T.
C8_IdempotentPatch ==
    (kind = "idempotent" /\ pc = "done") => (result = "Ok" /\ out = new)

\* C9: the patch of generate_identity_patch(len(old)) applied to old writes a
\* prefix of old while it runs, and when it ends it has returned Ok and the
\* output equals old.
C9_IdentityPatch ==
    kind = "identity" =>
        /\ Len(out) <= Len(old)
        /\ out = SubSeq(old, 1, Len(out))
        /\ pc = "done" => (result = "Ok" /\ out = old)

\* C9's case: an identity patch longer than one buffer has been applied, the
\* old reader and the delta reader having delivered at different paces.
C9_Witness ==
    /\ kind = "identity"
    /\ pc = "done"
    /\ result = "Ok"
    /\ Len(old) > BufCap
    /\ out = old
    /\ rk = "short"

\* C2: generate_full_patch followed by apply_patch, both on in-memory buffers
\* (Cursor readers, no I/O failure): apply_patch returns Ok and has written
\* exactly new.
C2_LinearRoundTrip ==
    (variant = "linear" /\ kind = "full" /\ rk = "full" /\ ~faulty
        /\ op = "apply" /\ pc = "done")
        => (result = "Ok" /\ out = new)

\* C5: apply_patch ends Ok, that is Command::read_from has returned Ok(None),
\* only with zero bytes of the current command read.
C5_CleanEndOnlyAtBoundary ==
    (variant = "linear" /\ op = "apply" /\ pc = "done" /\ result = "Ok") => cp = 0

\* C7: no operation has returned Ok after one of its I/O calls failed.
C7_IoErrorsPropagate ==
    (pc \in {"generated", "done"} /\ result = "Ok") => ~ioFailed

\* C10: the entry a get has found (Some) was complete when get returned: the
\* whole serialized index of the data, not a part of it.
C10_NoPartialEntry ==
    variant = "cache" =>
        \A q \in Procs :
            procs[q].hit => procs[q].atGet = Serialize(BuildIndex(procs[q].a))

\* C11: of two calls of from_cache_or_compute with the same old data on one
\* cache directory, the second starting after the first has returned: the
\* first has built the index and the directory holds its entry under the
\* digest's name; the second finds the entry, does not build, and returns an
\* index equal to the first's, so the scanner gives the same pairs with both.
C11_SecondCallFromCache ==
    variant = "cache" =>
        \A q1, q2 \in Procs :
            (q1 # q2 /\ procs[q1].a = procs[q2].a /\ q1 \in procs[q2].after) =>
                /\ procs[q1].built /\ ~procs[q1].hit
                /\ files[FileName(Digest(procs[q1].a))] =
                       [exists |-> TRUE, bytes |-> Serialize(procs[q1].index)]
                /\ procs[q2].hit /\ ~procs[q2].built
                /\ procs[q2].pc = "done" =>
                       /\ procs[q2].result = "Ok"
                       /\ procs[q2].index = procs[q1].index
                       /\ \A nw \in CacheInputs :
                              MatchIter(procs[q2].index.data, nw, 0)
                                  = MatchIter(procs[q1].index.data, nw, 0)

\* C11's case: the second of two successive calls on data of two bytes has
\* returned the index it loaded from the entry the first call stored.
C11_Witness ==
    /\ variant = "cache"
    /\ procs[1].a = procs[2].a
    /\ Len(procs[1].a) = MaxCacheLen
    /\ 1 \in procs[2].after
    /\ procs[1].built
    /\ procs[2].pc = "done"
    /\ procs[2].hit
    /\ procs[2].index = BuildIndex(procs[2].a)

\* A linear patch read as commands that all have bytewise_add_size 0: whether
\* it is one, and the literal bytes of its commands, joined.
RECURSIVE LiteralOnly(_)
LiteralOnly(pt) ==
    IF pt = <<>> THEN [ok |-> TRUE, lit |-> <<>>]
    ELSE IF Len(pt) < CmdLen THEN [ok |-> FALSE, lit |-> <<>>]
    ELSE LET c == CommandOfBytes(Slice(pt, 0, CmdLen))
             stop == CmdLen + c.extra_append_size
         IN  IF c.bytewise_add_size # 0 \/ stop > Len(pt)
             THEN [ok |-> FALSE, lit |-> <<>>]
             ELSE LET rest == LiteralOnly(Slice(pt, stop, Len(pt)))
                  IN  [ok |-> rest.ok, lit |-> Slice(pt, CmdLen, stop) \o rest.lit]

\* C12: generate_full_patch for an empty new does not fail or abort and
\* writes an empty patch, and apply_patch on it (no I/O failure) returns Ok
\* having written nothing; for an empty old (no I/O failure) generation does
\* not fail or abort, and what it has written is commands with
\* bytewise_add_size 0 whose literal bytes are new as far as it has got.
C12_BoundaryInputs ==
    variant = "linear" =>
        /\ (new = <<>> /\ op = "generate") =>
                (result \in {"none", "Ok"} /\ patch = <<>>)
        /\ (new = <<>> /\ op = "apply" /\ ~faulty /\ pc = "done") =>
                (result = "Ok" /\ out = <<>>)
        /\ (old = <<>> /\ op = "generate" /\ ~faulty) =>
                /\ result \in {"none", "Ok"}
                /\ LiteralOnly(patch).ok
                /\ LiteralOnly(patch).lit = Slice(new, 0, i)
                /\ pc = "generated" => i = Len(new)

\* C12's case: a patch generated from an empty old for a new longer than one
\* buffer is complete, all of new in it as literal bytes.
C12_Witness ==
    /\ variant = "linear"
    /\ old = <<>>
    /\ Len(new) > BufCap
    /\ ~faulty
    /\ pc = "generated"
    /\ result = "Ok"
    /\ LiteralOnly(patch).lit = new

\* C13: the slices read_size_from has handed to its callback are, joined, the
\* bytes of the stream from where the call started, in order, each once, as
\* many as the remaining size has gone down by; the remaining size never
\* goes below 0, the stream is read no further than the declared size, and
\* the call returns Ok with exactly the declared number of bytes handed over.
C13_LiteralExactCopy ==
    (variant = "copy" /\ Len(rd["patch"].data) >= call.decl) =>
        /\ size >= 0
        /\ result # "Panic"
        /\ seenE = Slice(rd["patch"].data, call.start0, call.start0 + Len(seenE))
        /\ Len(seenE) = call.decl - size
        /\ rd["patch"].pos <= call.start0 + call.decl
        /\ pc = "done" =>
               (result = "Ok" /\ rd["patch"].pos = call.start0 + call.decl)

\* A linear patch pt read as records (command, difference bytes, literal
\* bytes) that account for new from position at on: how many records it
\* holds and the position of new they reach, or -1 when a record is
\* incomplete, its match leaves old, or its bytes are not the difference bytes
\* of its match followed by the literal bytes of new that come next.
RECURSIVE CoveredTo(_, _, _)
CoveredTo(pt, at, n) ==
    IF pt = <<>> THEN [at |-> at, n |-> n]
    ELSE IF Len(pt) < CmdLen THEN [at |-> -1, n |-> n]
    ELSE LET c == CommandOfBytes(Slice(pt, 0, CmdLen))
             m == c.bytewise_add_size
             l == c.extra_append_size
             stop == CmdLen + m + l
         IN  IF \/ stop > Len(pt)
                \/ c.old_offset + m > Len(old)
                \/ at + m + l > Len(new)
             THEN [at |-> -1, n |-> n]
             ELSE IF \/ Slice(pt, CmdLen, CmdLen + m) #
                           DeltaBytes(Slice(old, c.old_offset, c.old_offset + m),
                                      Slice(new, at, at + m))
                     \/ Slice(pt, CmdLen + m, stop) # Slice(new, at + m, at + m + l)
             THEN [at |-> -1, n |-> n]
             ELSE CoveredTo(Slice(pt, stop, Len(pt)), at + m + l, n + 1)

\* C14: while generate_full_patch runs with no write failing, the patch
\* written so far is k records, each a command, the difference bytes of its
\* match (which lies inside old) and the literal bytes that follow in new,
\* accounting for new, in order, up to the cursor i; when it has returned,
\* i is len(new).
C14_CommandCoverage ==
    (variant = "linear" /\ op = "generate" /\ ~ioFailed) =>
        /\ CoveredTo(patch, 0, 0) = [at |-> i, n |-> k]
        /\ i <= Len(new)
        /\ pc = "generated" => i = Len(new)

\* C14's case: generation has returned having written two commands or more,
\* one of them with a match.
C14_Witness ==
    /\ variant = "linear"
    /\ pc = "generated"
    /\ ~ioFailed
    /\ k >= 2
    /\ i = Len(new)
    /\ Len(patch) = k * CmdLen + Len(new)
    /\ ~LiteralOnly(patch).ok

\* The steps an applier may take from one position to the next.
StepOrder ==
    LET compact == {<<"start", "next_cmd">>, <<"next_cmd", "delta">>,
                    <<"delta", "delta">>, <<"delta", "extra">>,
                    <<"extra", "extra">>, <<"extra", "seek">>,
                    <<"seek", "next_cmd">>}
        linear == {<<"read_cmd", "read_cmd">>, <<"read_cmd", "delta">>,
                   <<"delta", "delta">>, <<"delta", "extra">>,
                   <<"extra", "extra">>, <<"extra", "read_cmd">>}
    IN  (IF variant = "compact" THEN compact ELSE linear)
            \cup {<<at, "done">> : at \in {"start", "next_cmd", "read_cmd", "delta",
                                           "extra", "seek"}}

\* C15: every step of an applier follows the order ReadCommand, ApplyDelta,
\* ApplyLiteral, (SeekOld,) ReadCommand: the commands are taken from the
\* command stream one after the other; output is written only while a
\* command's delta or literal is applied, and ApplyLiteral begins when all
\* bytewise_add_size combined bytes are written and the old cursor is that
\* many bytes past where the delta began; the compact applier leaves the old
\* cursor alone until SeekOld moves it by the command's signed offset, the
\* linear applier puts it at old_offset before the delta; the run returns Ok
\* only from ReadCommand, the command stream being at its end.
C15_StepOrdering ==
    [][(op = "apply" /\ op' = "apply") =>
        /\ <<pc, pc'>> \in StepOrder
        /\ out' # out => pc \in {"delta", "extra"}
        /\ (pc = "next_cmd" /\ pc' = "delta") =>
               /\ cmd'.bytewise_add_size =
                      CompactCommandOfBytes(ReadBytes("commands", CmdLen)).bytewise_add_size
               /\ cmd'.oldfile_seek_offset =
                      CompactCommandOfBytes(ReadBytes("commands", CmdLen)).oldfile_seek_offset
               /\ rd'["commands"].pos = rd["commands"].pos + CmdLen
               /\ rd'["old"].pos = rd["old"].pos
               /\ size' = cmd'.bytewise_add_size
        /\ (pc = "read_cmd" /\ pc' = "delta") =>
               /\ cmd'.old_offset = CommandOfBytes(cbuf).old_offset
               /\ rd'["old"].pos = cmd'.old_offset
               /\ size' = cmd'.bytewise_add_size
        /\ (pc = "delta" /\ pc' = "extra") =>
               /\ Len(seen0) = cmd.bytewise_add_size
               /\ rd["old"].pos = call.start0 + cmd.bytewise_add_size
               /\ out' = out
               /\ size' = cmd.extra_append_size
        /\ pc = "extra" => rd'["old"].pos = rd["old"].pos
        /\ (pc = "seek" /\ pc' = "next_cmd") =>
               rd'["old"].pos = rd["old"].pos + cmd.oldfile_seek_offset
        /\ (pc' = "done" /\ result' = "Ok") =>
               /\ pc \in {"next_cmd", "read_cmd"}
               /\ pc = "next_cmd" =>
                      rd["commands"].pos = Len(rd["commands"].data)
               /\ pc = "read_cmd" => rd["patch"].pos = Len(rd["patch"].data)
      ]_vars

\* C15's case: the compact applier has applied a command with a match and has
\* moved the old cursor back by the command's offset for the next command.
C15_Witness ==
    /\ variant = "compact"
    /\ kind = "simple"
    /\ pc = "next_cmd"
    /\ cmd.bytewise_add_size > 0
    /\ cmd.oldfile_seek_offset < 0
    /\ out # <<>>
    /\ rd["old"].pos = 0

\* C16: between the iterations of read_paired_bufs the fill positions p0 and
\* p1 are at most the remaining size and at most the buffer's capacity, each
\* reader has been read exactly as far as the bytes processed plus the bytes
\* waiting in its buffer, never past the declared size, and when the call
\* returns each reader stands exactly `size` bytes past where it started.
C16_NeverOverReads ==
    variant = "merge" =>
        /\ 0 <= p0 /\ p0 <= size /\ p0 <= BufCap
        /\ 0 <= p1 /\ p1 <= size /\ p1 <= BufCap
        /\ rd["old"].pos = call.start0 + (call.decl - size) + p0
        /\ rd["patch"].pos = call.start1 + (call.decl - size) + p1
        /\ rd["old"].pos <= call.start0 + call.decl
        /\ rd["patch"].pos <= call.start1 + call.decl
        /\ pc = "done" =>
               /\ rd["old"].pos = call.start0 + call.decl
               /\ rd["patch"].pos = call.start1 + call.decl

\* C16's case: a call longer than one buffer, fed by short reads, has
\* returned with bytes left unread behind it in both streams.
C16_Witness ==
    /\ variant = "merge"
    /\ rk = "short"
    /\ pc = "done"
    /\ call.decl > BufCap
    /\ Len(rd["old"].data) > call.decl
    /\ Len(rd["patch"].data) > call.decl
    /\ rd["old"].pos = call.decl
    /\ rd["patch"].pos = call.decl

\* C17: while an applier is in read_paired_bufs or read_size_from, the call
\* can return or its loop can take a turn that changes its state: no turn
\* leaves the remaining size, the buffers and the readers as they were, which
\* is a loop that runs forever.  (A remaining size that has wrapped below
\* zero is C13's case, not this one.)
C17_ApplyTerminates ==
    (op = "apply" /\ pc \in {"delta", "extra"}) =>
        \/ size < 0
        \/ ENABLED <<PairedIter \/ PairedReturn \/ SizedIter \/ SizedReturn>>_vars

\* C18: the k-th byte append_delta writes for a match applied with the old
\* cursor at c is (old[c+k] + delta[k]) mod 256, and with the delta the
\* generator's difference (new - old) mod 256 it is the new byte, for every
\* pair of an old and a new byte and however the two readers split their
\* reads; when the call returns, the whole match has been written.
C18_DeltaArithmetic ==
    kind = "arith" =>
        /\ Len(out) <= call.decl
        /\ \A j \in 1..Len(out) :
               /\ out[j] = (old[call.start0 + j] + patch[j]) % ByteMod
               /\ out[j] = new[j]
        /\ pc = "done" => (result = "Ok" /\ out = new)

\* C18's case: a match longer than the buffer, read in short reads, has been
\* written, the sum of its first old byte and delta byte having wrapped.
C18_Witness ==
    /\ kind = "arith"
    /\ rk = "short"
    /\ pc = "done"
    /\ old[call.start0 + 1] + patch[1] >= ByteMod
    /\ old[call.start0 + 1] = ByteMod - 1
    /\ out = new

\* Byte j (0 the least significant) of a field value below 2^24.
ByteOf(v, j) ==
    IF j >= 3 THEN 0
    ELSE (v \div (IF j = 0 THEN 1 ELSE IF j = 1 THEN ByteMod
                  ELSE ByteMod * ByteMod)) % ByteMod

\* C19: Command::write_to writes 24 bytes, the little-endian bytes of
\* old_offset, bytewise_add_size and extra_append_size in that order;
\* Command::read_from reads no more than those 24 bytes of the stream, and
\* when it returns it has read exactly them and gives Some command with the
\* three fields that were written, however the reads were split.
C19_CommandCodecRoundTrip ==
    (variant = "codec" /\ pc # "write_cmd") =>
        LET m == Head(matches)
        IN  /\ Len(patch) = CmdLen
            /\ \A j \in 0..(U64Len - 1) :
                   /\ patch[j + 1] = ByteOf(m.old_offset, j)
                   /\ patch[U64Len + j + 1] = ByteOf(m.len, j)
                   /\ patch[2 * U64Len + j + 1] = ByteOf(m.unmatched_suffix, j)
            /\ rd["patch"].pos = cp
            /\ cp <= CmdLen
            /\ pc = "done" =>
                   /\ result = "Some"
                   /\ rd["patch"].pos = CmdLen
                   /\ cmd.old_offset = m.old_offset
                   /\ cmd.bytewise_add_size = m.len
                   /\ cmd.extra_append_size = m.unmatched_suffix

\* C19's case: a command with fields of three, two and one byte has been
\* read back in short reads from a stream that goes on after it.
C19_Witness ==
    /\ variant = "codec"
    /\ rk = "short"
    /\ pc = "done"
    /\ result = "Some"
    /\ cmd.old_offset = Huge - 1
    /\ cmd.bytewise_add_size = ByteMod
    /\ cmd.extra_append_size = ByteMod - 1
    /\ Len(rd["patch"].data) > CmdLen

====
